---------------------------- MODULE Spec2Model ----------------------------
(***************************************************************************)
(* Model of the hardware Bitcoin wallet firmware core.                     *)
(*                                                                         *)
(*  - user_interface.c (src/unnamed/part_001, lines 1-451): the pending    *)
(*    output list, the debounced button waits and askUser(), translated    *)
(*    statement by statement.  One step of a wait loop (wait1ms, sample    *)
(*    the two buttons, update the counter) is one step of the model; the   *)
(*    straight-line code between two loop iterations belongs to the step   *)
(*    that leaves the loop.                                                *)
(*  - storage_common.h: the layout of non-volatile storage.                *)
(*  - the protocol description (src/unnamed/part_001, lines 455-574): the  *)
(*    command catalogue.                                                   *)
(*                                                                         *)
(* Texts (amounts, addresses) are opaque strings: every text handed to     *)
(* newOutputSeen()/setTransactionFee() fits its destination buffer, whose  *)
(* sizes (TEXT_AMOUNT_LENGTH, TEXT_ADDRESS_LENGTH) are declared outside    *)
(* the files modelled here, so strncpy() copies it whole.                  *)
(***************************************************************************)
EXTENDS Integers, Sequences, FiniteSets, TLC

\* ------------------------------------------------------------------------
\* Program constants
\* ------------------------------------------------------------------------

\* user_interface.c: consistent samples required to register a button press.
DEBOUNCE_COUNT == 50

\* user_interface.c: capacity of list_amount / list_address.
MAX_OUTPUTS == 20

\* ------------------------------------------------------------------------
\* Bounds of the model
\* ------------------------------------------------------------------------

\* Largest number of outputs of one spending transaction, i.e. the number of
\* newOutputSeen() calls the transaction parser makes between two
\* clearOutputsSeen() calls.
MaxTxOut == 2

\* Largest number of input transactions of one sign-transaction request.
MaxTxIn == 2

\* ------------------------------------------------------------------------
\* Input domains
\* ------------------------------------------------------------------------

AmountTexts == {"0.01", "0.02"}
AddressTexts == {"1RaTTuSEN7jJUDiW1EGogHwtek7g9BiEn"}
FeeTexts == {"0.0005"}

\* Values an uninitialised uint8_t local may hold when it is first read.
UninitByte == {0, 1, 255}

\* A button line sample: 1 = pressed, 0 = not pressed.
Sample == {0, 1}

\* AskUserCommand values; ASKUSER_UNKNOWN stands for every value that is none
\* of the commands askUser() tests for.
AskUserCommands ==
    {"ASKUSER_NUKE_WALLET", "ASKUSER_NEW_ADDRESS", "ASKUSER_SIGN_TRANSACTION",
     "ASKUSER_FORMAT", "ASKUSER_CHANGE_NAME", "ASKUSER_BACKUP_WALLET",
     "ASKUSER_RESTORE_WALLET", "ASKUSER_UNKNOWN"}

VARIABLES
    \* --- user_interface.c statics ---
    list_amount,            \* char list_amount[MAX_OUTPUTS][..]
    list_address,           \* char list_address[MAX_OUTPUTS][..]
    list_index,             \* uint32_t list_index
    transaction_fee_set,    \* int transaction_fee_set
    transaction_fee_amount, \* char transaction_fee_amount[..]
    \* --- askUser() / wait loops: position and locals ---
    ui_pc,                  \* "idle" | "waitNoPress" | "waitPress" | "done"
    command,                \* askUser()'s argument
    stage,                  \* which prompt of the command is being asked
    i,                      \* askUser(): uint8_t i
    r,                      \* askUser(): uint8_t r (the return value)
    counter,                \* waitFor*(): uint32_t counter
    accept_pressed,         \* waitForButtonPress(): int accept_pressed
    cancel_pressed,         \* waitForButtonPress(): int cancel_pressed
    \* --- display (ssd1306) ---
    display_on,             \* displayOn() / displayOff()
    display,                \* strings written since the last clearDisplay()
    \* --- history of the current askUser() call ---
    shown,                  \* prompts written to the display, in order
    answers,                \* values returned by waitForButtonPress(), in order
    fee_called,             \* setTransactionFee() called since clearOutputsSeen()
    seen_r,                 \* value returned by the last newOutputSeen()
    \* --- caller of askUser(ASKUSER_SIGN_TRANSACTION) ---
    signed,                 \* a signature was released for the transaction
    \* --- sign-transaction request (parser and fee verification) ---
    tx,                     \* outcome and sums of the request being handled
    \* --- non-volatile storage ---
    nv,                     \* staging area and wallet records, by block address
    nv_pool,                \* persistent entropy pool and its checksum
    \* --- protocol engine ---
    current_wallet,         \* number of the loaded wallet, or NoWallet
    dev_pc,                 \* "read" | "write" | "respond" | "halted" | "off"
    wr,                     \* the storage write in progress
    response,               \* type of the response packet to send
    pending,                \* requests read minus responses sent
    last,                   \* the request being handled
    touched,                \* storage addresses the request has accessed
    session_event,          \* last event that changed current_wallet
    stream_failed,          \* a framing error was reported
    interrupted,            \* the record update a power loss interrupted
    \* --- flow control of the byte stream ---
    fc_n,                   \* bytes that may be sent before the next acknowledge
    fc_sent,                \* bytes sent since the last acknowledge
    fc_pc,                  \* "send" | "wait"
    fc_ack,                 \* bytes of the acknowledge received so far
    fc_last_ack,            \* value bytes of the last acknowledge, <<>> if none
    \* --- button lines as the wait loops sample them ---
    smp,                    \* <<accept, cancel>> read by the latest step, or NoSample
    run,                    \* latest consecutive samples of the current wait
                            \* that were what the wait is waiting for
    quiet,                  \* DEBOUNCE_COUNT released samples in a row since
                            \* the last answer
    fresh,                  \* no sample has been read in the current wait
    noise,                  \* samples that may still restart the current wait
    \* --- writeBackupSeed(): arguments and locals ---
    bk                      \* destination_device, is_encrypted, byte_counter,
                            \* line_number, cursor of the display

uiVars == <<list_amount, list_address, list_index, transaction_fee_set,
            transaction_fee_amount, ui_pc, command, stage, i, r, counter,
            accept_pressed, cancel_pressed, display_on, display, shown,
            answers, fee_called, seen_r, signed>>

txVars == <<tx>>

devVars == <<nv, nv_pool, current_wallet, dev_pc, wr, response, pending,
             last, touched, session_event, stream_failed, interrupted>>

fcVars == <<fc_n, fc_sent, fc_pc, fc_ack, fc_last_ack>>

\* The variables outside the user interface, the sign-transaction request
\* and the device.
btnVars == <<smp, run, quiet, fresh, noise>>

extVars == <<fcVars, btnVars, bk>>

vars == <<uiVars, txVars, devVars, extVars>>

\* Protocol description, "Flow control": "Initial n is 16".
FC_INITIAL_N == 16

\* Protocol description, "Flow control": "An acknowledge is 0xFF followed by
\* a little-endian u32".
FC_ACK_MARKER == 255

\* The stream before its first byte.
InitFc ==
    /\ fc_n = FC_INITIAL_N
    /\ fc_sent = 0
    /\ fc_pc = "send"
    /\ fc_ack = <<>>
    /\ fc_last_ack = <<>>

\* No step has read the button lines.
NoSample == <<>>

\* writeBackupSeed() has not been called.
NoBackup == [destination_device |-> 0, is_encrypted |-> 0, byte_counter |-> 0,
             line_number |-> 0, cursor |-> 0]

InitBtn ==
    /\ smp = NoSample
    /\ run = 0
    /\ quiet = FALSE
    /\ fresh = TRUE
    /\ noise = 0
    /\ bk = NoBackup

InitExt == InitFc /\ InitBtn

\* ------------------------------------------------------------------------
\* Pending output list (user_interface.c, lines 162-209)
\* ------------------------------------------------------------------------

listVars == <<list_amount, list_address, list_index, transaction_fee_set,
              transaction_fee_amount, fee_called, seen_r>>

askVars == <<ui_pc, command, stage, i, r, counter, accept_pressed,
             cancel_pressed, display_on, display, shown, answers, signed>>

\* The three operations below are called between askUser() calls; they leave
\* askUser()'s state alone, which the callers state with UNCHANGED askVars.

\* Variant: the capacity test lets one more pair in.
newOutputSeenOneMore(text_amount, text_address) ==
    /\ ui_pc = "idle"
    /\ IF list_index > MAX_OUTPUTS
       THEN /\ seen_r' = 1
            /\ UNCHANGED <<list_amount, list_address, list_index>>
       ELSE /\ list_amount' = [list_amount EXCEPT ![list_index] = text_amount]
            /\ list_address' = [list_address EXCEPT ![list_index] = text_address]
            /\ list_index' = list_index + 1
            /\ seen_r' = 0
    /\ UNCHANGED <<transaction_fee_set, transaction_fee_amount, fee_called>>

\* newOutputSeen(): returns 1 and stores nothing when the list is full,
\* otherwise copies the pair to slot list_index and increments list_index.
newOutputSeen(text_amount, text_address) ==
    /\ ui_pc = "idle"
    /\ IF list_index >= MAX_OUTPUTS
       THEN /\ seen_r' = 1
            /\ UNCHANGED <<list_amount, list_address, list_index>>
       ELSE /\ list_amount' = [list_amount EXCEPT ![list_index] = text_amount]
            /\ list_address' = [list_address EXCEPT ![list_index] = text_address]
            /\ list_index' = list_index + 1
            /\ seen_r' = 0
    /\ UNCHANGED <<transaction_fee_set, transaction_fee_amount, fee_called>>

\* Variant: the fee text is not copied, only the flag is set.
setTransactionFeeNoCopy(text_amount) ==
    /\ ui_pc = "idle"
    /\ transaction_fee_set' = 1
    /\ fee_called' = TRUE
    /\ UNCHANGED <<list_amount, list_address, list_index,
                   transaction_fee_amount, seen_r>>

\* setTransactionFee()
setTransactionFee(text_amount) ==
    /\ ui_pc = "idle"
    /\ transaction_fee_amount' = text_amount
    /\ transaction_fee_set' = 1
    /\ fee_called' = TRUE
    /\ UNCHANGED <<list_amount, list_address, list_index, seen_r>>

\* Variant: the fee flag is not reset.
clearOutputsSeenKeepsFee ==
    /\ ui_pc = "idle"
    /\ list_index' = 0
    /\ UNCHANGED <<list_amount, list_address, transaction_fee_amount,
                   transaction_fee_set, fee_called, seen_r>>

\* clearOutputsSeen(): the arrays and the fee text keep their contents.
clearOutputsSeen ==
    /\ ui_pc = "idle"
    /\ list_index' = 0
    /\ transaction_fee_set' = 0
    /\ fee_called' = FALSE
    /\ UNCHANGED <<list_amount, list_address, transaction_fee_amount, seen_r>>


\* ------------------------------------------------------------------------
\* askUser() (user_interface.c, lines 211-319)
\* ------------------------------------------------------------------------

\* The strings askUser() writes to the display for one prompt.
PromptText(cmd, st, idx) ==
    CASE cmd = "ASKUSER_NUKE_WALLET" ->
            <<"Delete current wallet and create new one?">>
      [] cmd = "ASKUSER_NEW_ADDRESS" -> <<"Create new address?">>
      [] cmd = "ASKUSER_SIGN_TRANSACTION" /\ st = "output" ->
            <<"Send ", list_amount[idx], " BTC to ", list_address[idx], "?">>
      [] cmd = "ASKUSER_SIGN_TRANSACTION" /\ st = "fee" ->
            <<"Transaction fee:", transaction_fee_amount, " BTC.",
              "Is this okay?">>
      [] cmd = "ASKUSER_FORMAT" /\ st = "format1" ->
            <<"Format storage? This will delete everything!">>
      [] cmd = "ASKUSER_FORMAT" /\ st = "format2" ->
            <<"Are you sure you you want to nuke all wallets?">>
      [] cmd = "ASKUSER_FORMAT" /\ st = "format3" ->
            <<"Are you really really sure?">>
      [] cmd = "ASKUSER_CHANGE_NAME" ->
            <<"Change the name of the current wallet?">>
      [] cmd = "ASKUSER_BACKUP_WALLET" ->
            <<"Do you want to backup the current wallet?">>
      [] cmd = "ASKUSER_RESTORE_WALLET" ->
            <<"Delete current wallet and restore from a backup?">>
      [] OTHER ->
            <<"Unknown command in askUser(). Press any button to continue...">>

\* What a prompt shows, for the history: its kind and, for an output or fee
\* prompt, the texts read from the pending output list.
PromptRecord(cmd, st, idx) ==
    IF cmd = "ASKUSER_SIGN_TRANSACTION" /\ st = "output"
    THEN [kind |-> "output", idx |-> idx, amount |-> list_amount[idx],
          address |-> list_address[idx]]
    ELSE IF cmd = "ASKUSER_SIGN_TRANSACTION" /\ st = "fee"
    THEN [kind |-> "fee", idx |-> 0, amount |-> transaction_fee_amount,
          address |-> ""]
    ELSE [kind |-> st, idx |-> 0, amount |-> "", address |-> ""]

\* The first prompt of each command.
FirstStage(cmd) ==
    CASE cmd = "ASKUSER_SIGN_TRANSACTION" -> "output"
      [] cmd = "ASKUSER_FORMAT" -> "format1"
      [] cmd = "ASKUSER_UNKNOWN" -> "unknown"
      [] OTHER -> "single"

\* Variant: the prompt is written and waitForButtonPress() entered without
\* waiting for the buttons to be released.
EnterPromptNoRelease(st, iv, rv) ==
    /\ ui_pc' = "waitPress"
    /\ stage' = st
    /\ i' = iv
    /\ r' = rv
    /\ counter' = DEBOUNCE_COUNT
    /\ display' = PromptText(command, st, iv)
    /\ display_on' = TRUE
    /\ UNCHANGED <<accept_pressed, cancel_pressed>>

\* clearDisplay(); waitForNoButtonPress() up to its first loop test:
\* counter = DEBOUNCE_COUNT.  The display is on since line 221.
EnterPrompt(st, iv, rv) ==
    /\ ui_pc' = "waitNoPress"
    /\ stage' = st
    /\ i' = iv
    /\ r' = rv
    /\ counter' = DEBOUNCE_COUNT
    /\ display' = <<>>
    /\ display_on' = TRUE
    /\ UNCHANGED <<accept_pressed, cancel_pressed>>

\* Lines 316-318: clearDisplay(); displayOff(); return r.  The locals of
\* askUser() and of the wait functions end with the call.
Finish(rv) ==
    /\ ui_pc' = "done"
    /\ r' = rv
    /\ stage' = "none"
    /\ i' = 0
    /\ counter' = 0
    /\ accept_pressed' = 0
    /\ cancel_pressed' = 0
    /\ display' = <<>>
    /\ display_on' = FALSE

\* Variant: the fee is asked about whenever a fee was set, without testing r.
SignAfterLoopNoDenyTest(iv, rv) ==
    IF transaction_fee_set # 0
    THEN EnterPrompt("fee", iv, rv)
    ELSE Finish(rv)

\* Lines 257-268: after the output loop, the fee is asked about when r is
\* zero and a fee was set.
SignAfterLoop(iv, rv) ==
    IF rv = 0 /\ transaction_fee_set # 0
    THEN EnterPrompt("fee", iv, rv)
    ELSE Finish(rv)

\* Lines 239-256: the loop test i < list_index and one entry into the body.
SignLoopTest(iv, rv) ==
    IF iv < list_index
    THEN EnterPrompt("output", iv, rv)
    ELSE SignAfterLoop(iv, rv)

\* Variant: the break at line 254 is missing.
SignOutputAnsweredNoBreak(ret) ==
    SignLoopTest((i + 1) % 256, ret)

\* Lines 248-255: r = waitForButtonPress(); if (r) break; else i++.
SignOutputAnswered(ret) ==
    IF ret # 0
    THEN SignAfterLoop(i, ret)
    ELSE SignLoopTest((i + 1) % 256, ret)

\* Variant: after the third confirmation the first is asked again.
FormatAnsweredAsksAgain(ret) ==
    IF ret = 0 /\ stage = "format1" THEN EnterPrompt("format2", i, ret)
    ELSE IF ret = 0 /\ stage = "format2" THEN EnterPrompt("format3", i, ret)
    ELSE IF ret = 0 /\ stage = "format3" THEN EnterPrompt("format1", i, ret)
    ELSE Finish(ret)

\* Variant: the third confirmation is not asked.
FormatAnsweredTwice(ret) ==
    IF ret = 0 /\ stage = "format1" THEN EnterPrompt("format2", i, ret)
    ELSE Finish(ret)

\* Lines 274-288: the three nested confirmations of ASKUSER_FORMAT.
FormatAnswered(ret) ==
    IF ret = 0 /\ stage = "format1" THEN EnterPrompt("format2", i, ret)
    ELSE IF ret = 0 /\ stage = "format2" THEN EnterPrompt("format3", i, ret)
    ELSE Finish(ret)

\* The code of askUser() that follows the return of waitForButtonPress().
Answered(ret) ==
    CASE command = "ASKUSER_SIGN_TRANSACTION" /\ stage = "output" ->
            SignOutputAnswered(ret)
      [] command = "ASKUSER_SIGN_TRANSACTION" /\ stage = "fee" -> Finish(ret)
      [] command = "ASKUSER_FORMAT" -> FormatAnswered(ret)
      [] command = "ASKUSER_UNKNOWN" -> Finish(1)
      [] OTHER -> Finish(ret)

\* askUser(command), from its entry to the first loop iteration of the first
\* wait (or to its return when no prompt is asked).  r is not initialised.
askUser(cmd) ==
    /\ ui_pc = "idle"
    /\ command' = cmd
    /\ shown' = <<>>
    /\ answers' = <<>>
    /\ signed' = FALSE
    /\ \E r0 \in UninitByte :
          IF cmd = "ASKUSER_SIGN_TRANSACTION"
          THEN SignLoopTest(0, r0)
          ELSE /\ ui_pc' = "waitNoPress"
               /\ stage' = FirstStage(cmd)
               /\ i' = 0
               /\ r' = r0
               /\ counter' = DEBOUNCE_COUNT
               /\ display' = <<>>
               /\ display_on' = TRUE
               /\ UNCHANGED <<accept_pressed, cancel_pressed>>
    /\ UNCHANGED listVars

\* ------------------------------------------------------------------------
\* Debounced button waits (user_interface.c, lines 104-160)
\* ------------------------------------------------------------------------

\* One iteration of the loop of waitForNoButtonPress(): the new counter.
NoPressCounter(cnt, accept, cancel) ==
    IF accept = 1 \/ cancel = 1 THEN DEBOUNCE_COUNT ELSE cnt - 1

\* Variant: a sample with no button pressed does not restart the count.
PressCounterNoReset(cnt, accept, cancel) == cnt - 1

\* One iteration of the loop of waitForButtonPress(): the new counter.
PressCounter(cnt, accept, cancel) ==
    IF accept = 0 /\ cancel = 0 THEN DEBOUNCE_COUNT ELSE cnt - 1

\* Lines 152-159: the value waitForButtonPress() returns.
PressResult(accept, cancel) ==
    IF cancel # 0 THEN 1 ELSE 0

\* One iteration of waitForNoButtonPress() inside askUser().  When the loop
\* ends, askUser() writes the prompt and enters waitForButtonPress().
waitForNoButtonPressOn(accept, cancel) ==
    /\ ui_pc = "waitNoPress"
    /\ LET c1 == NoPressCounter(counter, accept, cancel) IN
       IF c1 > 0
       THEN /\ counter' = c1
            /\ UNCHANGED <<ui_pc, display, shown>>
       ELSE /\ ui_pc' = "waitPress"
            /\ counter' = DEBOUNCE_COUNT
            /\ display' = display \o PromptText(command, stage, i)
            /\ shown' = Append(shown, PromptRecord(command, stage, i))
    /\ UNCHANGED <<command, stage, i, r, accept_pressed, cancel_pressed,
                   display_on, answers, signed>>
    /\ UNCHANGED listVars

\* The same with any sample of the button lines.
waitForNoButtonPress ==
    \E accept \in Sample, cancel \in Sample :
        waitForNoButtonPressOn(accept, cancel)

\* One iteration of waitForButtonPress() inside askUser().  When the loop
\* ends, the function returns and askUser() goes on to its next wait or to
\* its return.
waitForButtonPressOn(accept, cancel) ==
    /\ ui_pc = "waitPress"
    /\ LET c1 == PressCounter(counter, accept, cancel) IN
       IF c1 > 0
       THEN /\ counter' = c1
            /\ accept_pressed' = accept
            /\ cancel_pressed' = cancel
            /\ UNCHANGED <<ui_pc, stage, i, r, display, display_on, answers>>
       ELSE /\ answers' = Append(answers, PressResult(accept, cancel))
            /\ Answered(PressResult(accept, cancel))
    /\ UNCHANGED <<command, shown, signed>>
    /\ UNCHANGED listVars

\* The same with any sample of the button lines.
waitForButtonPress ==
    \E accept \in Sample, cancel \in Sample :
        waitForButtonPressOn(accept, cancel)

\* ------------------------------------------------------------------------
\* The caller of askUser()
\* ------------------------------------------------------------------------

\* askUser() has returned r to its caller; for a sign-transaction request the
\* signature is produced only if the approval was accepted (r = 0).
callerReturn ==
    /\ ui_pc = "done"
    /\ ui_pc' = "idle"
    /\ signed' = (command = "ASKUSER_SIGN_TRANSACTION" /\ r = 0)
    /\ UNCHANGED <<command, stage, i, r, counter, accept_pressed,
                   cancel_pressed, display_on, display, shown, answers>>
    /\ UNCHANGED listVars

\* ------------------------------------------------------------------------
\* Layout of non-volatile storage (storage_common.h)
\* ------------------------------------------------------------------------

WALLET_RECORD_LENGTH == 160

ADDRESS_ENTROPY_POOL == 64

ADDRESS_POOL_CHECKSUM == 96

ADDRESS_WALLET_STAGING == 128

ADDRESS_WALLET_START == ADDRESS_WALLET_STAGING + WALLET_RECORD_LENGTH

\* Block size of AES in bytes (128 bits): the unit of an encrypted write.
AES_BLOCK_SIZE == 16

\* Number of cipher blocks of a wallet record.
BlocksPerRecord == WALLET_RECORD_LENGTH \div AES_BLOCK_SIZE

\* Number of wallet records the storage holds.
NumWallets == 2

\* Largest number of addresses of a wallet.
MaxAddresses == 1

Wallets == 0 .. (NumWallets - 1)

\* The value of current_wallet when no wallet is loaded.
NoWallet == -1

\* Variant: consecutive records overlap by one block.
WalletAddressShortStride(n) ==
    ADDRESS_WALLET_START + n * (WALLET_RECORD_LENGTH - AES_BLOCK_SIZE)

\* Variant: the records start where the staging area starts.
WalletAddressAtStaging(n) == ADDRESS_WALLET_STAGING + n * WALLET_RECORD_LENGTH

\* Address of wallet record n: records follow each other from
\* ADDRESS_WALLET_START.
WalletAddress(n) == ADDRESS_WALLET_START + n * WALLET_RECORD_LENGTH

\* Address of block j of the record at address base.
BlockAddress(base, j) == base + j * AES_BLOCK_SIZE

\* The block addresses of the record (or staging area) at address base.
RecordBlocks(base) == {BlockAddress(base, j) : j \in 0 .. (BlocksPerRecord - 1)}

\* Every block address of the staging area and of the wallet records.
StoreBlocks ==
    RecordBlocks(ADDRESS_WALLET_STAGING)
        \cup UNION {RecordBlocks(WalletAddress(n)) : n \in Wallets}

\* Contents of a record.  A block of storage holds the part of one record
\* that lies in it, written as the record it belongs to: a slot whose blocks
\* belong to different records is a slot whose checksum does not validate.
Names == {"A", "B"}
Keys == {"key0", "key1"}
Seeds == {"entropy2"}

\* The name and key a new wallet is created or restored with; change-name and
\* change-key give a wallet any of Names and Keys.
NewNames == {"A"}
NewKeys == {"key0"}

ZeroRecord == [state |-> "zero", name |-> "", key |-> "", naddr |-> 0]

InvalidRecord == [state |-> "invalid", name |-> "", key |-> "", naddr |-> 0]

Record(name, key, naddr) ==
    [state |-> "valid", name |-> name, key |-> key, naddr |-> naddr]

\* No storage write is in progress.
NoWrite == [kind |-> "none", wallet |-> 0, value |-> ZeroRecord,
            old |-> ZeroRecord, pos |-> 0, seed |-> ""]

\* No request is being handled.
NoRequest == [cmd |-> "none", had_wallet |-> FALSE, prev |-> NoWallet,
              target |-> NoWallet, error |-> "none", asked |-> FALSE]

NoInterrupt == [wallet |-> NoWallet, old |-> ZeroRecord, new |-> ZeroRecord]

\* Storage as a format command left it, no wallet loaded, the engine waiting
\* for a packet.
InitDev ==
    /\ nv = [a \in StoreBlocks |-> ZeroRecord]
    /\ \E seed \in Seeds : nv_pool = [pool |-> seed, checksum |-> seed]
    /\ current_wallet = NoWallet
    /\ dev_pc = "read"
    /\ wr = NoWrite
    /\ response = 0
    /\ pending = 0
    /\ last = NoRequest
    /\ touched = {}
    /\ session_event = "reset"
    /\ stream_failed = FALSE
    /\ interrupted = NoInterrupt

\* ------------------------------------------------------------------------
\* Specification of the user interface
\* ------------------------------------------------------------------------

InitUI ==
    /\ list_amount = [k \in 0 .. (MAX_OUTPUTS - 1) |-> ""]
    /\ list_address = [k \in 0 .. (MAX_OUTPUTS - 1) |-> ""]
    /\ list_index = 0
    /\ transaction_fee_set = 0
    /\ transaction_fee_amount = ""
    /\ ui_pc = "idle"
    /\ command = "ASKUSER_UNKNOWN"
    /\ stage = "none"
    /\ i = 0
    /\ r = 0
    /\ counter = 0
    /\ accept_pressed = 0
    /\ cancel_pressed = 0
    /\ display_on = FALSE
    /\ display = <<>>
    /\ shown = <<>>
    /\ answers = <<>>
    /\ fee_called = FALSE
    /\ seen_r = 0
    /\ signed = FALSE

\* No sign-transaction request has been received.
InitTx ==
    tx = [result |-> "none", refs_ok |-> TRUE, sum_in |-> 0, sum_out |-> 0,
          rest |-> <<>>, data |-> <<>>]

Init == InitUI /\ InitTx /\ InitDev /\ InitExt

\* The transaction parser reports at most MaxTxOut outputs per transaction.
ParserOutput ==
    /\ list_index < MaxTxOut
    /\ \E a \in AmountTexts, d \in AddressTexts : newOutputSeen(a, d)
    /\ UNCHANGED <<askVars, txVars, devVars, extVars>>

ParserFee ==
    /\ \E f \in FeeTexts : setTransactionFee(f)
    /\ UNCHANGED <<askVars, txVars, devVars, extVars>>

ParserClear == clearOutputsSeen /\ UNCHANGED <<askVars, txVars, devVars, extVars>>

Ask ==
    /\ \E cmd \in AskUserCommands : askUser(cmd)
    /\ UNCHANGED <<txVars, devVars, extVars>>

WaitNoPress == waitForNoButtonPress /\ UNCHANGED <<txVars, devVars, extVars>>

WaitPress == waitForButtonPress /\ UNCHANGED <<txVars, devVars, extVars>>

CallerReturn == callerReturn /\ UNCHANGED <<txVars, devVars, extVars>>

Next ==
    \/ ParserOutput
    \/ ParserFee
    \/ ParserClear
    \/ Ask
    \/ WaitNoPress
    \/ WaitPress
    \/ CallerReturn

Spec == Init /\ [][Next]_vars

\* ------------------------------------------------------------------------
\* Properties of the sign-transaction approval
\* ------------------------------------------------------------------------

\* The prompts of the current askUser() call that are fee prompts.
FeePrompts == {j \in 1 .. Len(shown) : shown[j].kind = "fee"}

\* askUser() has returned (its caller may have taken the result already).
Returned == ui_pc \in {"done", "idle"}

\* C1: in askUser(ASKUSER_SIGN_TRANSACTION), once the user has denied the
\* prompt of an output (whatever was answered before), askUser() has returned
\* with a non-zero value, the denied prompt is the last prompt shown (no later
\* output prompt, no fee prompt) and no signature is released.
C1_DenyForfeits ==
    command = "ASKUSER_SIGN_TRANSACTION" =>
        \A j \in 1 .. Len(answers) :
            (shown[j].kind = "output" /\ answers[j] # 0) =>
                /\ Len(shown) = j
                /\ FeePrompts = {}
                /\ Returned
                /\ r # 0
                /\ ~signed

\* C1 witness: two pending outputs and a fee; the first output was accepted,
\* the second denied, no fee prompt followed and the caller has taken the
\* result.
C1_Witness ==
    /\ command = "ASKUSER_SIGN_TRANSACTION"
    /\ ui_pc = "idle"
    /\ list_index = 2
    /\ transaction_fee_set = 1
    /\ answers = <<0, 1>>
    /\ Len(shown) = 2
    /\ ~signed

\* C2: in askUser(ASKUSER_SIGN_TRANSACTION) with k = list_index >= 1 outputs,
\* the fee prompt is shown at most once, as prompt k + 1, after k accepted
\* output prompts; when askUser() has returned, it was shown if and only if
\* setTransactionFee() was called since the last clearOutputsSeen() and all k
\* output prompts were accepted; a denied fee prompt gives a non-zero return
\* value and no signature; a return value of 0 means k accepted answers, plus
\* one accepted fee answer when a fee was set; a signature is released only
\* after such a return.
C2_FeePrompt ==
    /\ (command = "ASKUSER_SIGN_TRANSACTION" /\ ui_pc # "idle"
          /\ list_index >= 1) =>
          \A j \in FeePrompts :
              /\ j = list_index + 1
              /\ j = Len(shown)
              /\ \A m \in 1 .. (j - 1) :
                    shown[m].kind = "output" /\ answers[m] = 0
    /\ (command = "ASKUSER_SIGN_TRANSACTION" /\ ui_pc = "done"
          /\ list_index >= 1) =>
          /\ (FeePrompts # {}) <=>
                (/\ fee_called
                 /\ Len(answers) >= list_index
                 /\ \A m \in 1 .. list_index : answers[m] = 0)
          /\ (r = 0) =>
                /\ Len(answers) = list_index + (IF fee_called THEN 1 ELSE 0)
                /\ \A m \in 1 .. Len(answers) : answers[m] = 0
    /\ command = "ASKUSER_SIGN_TRANSACTION" =>
          \A j \in FeePrompts :
              (j <= Len(answers) /\ answers[j] # 0) =>
                  Returned /\ r # 0 /\ ~signed
    /\ signed =>
          /\ command = "ASKUSER_SIGN_TRANSACTION"
          /\ r = 0
          /\ \A m \in 1 .. Len(answers) : answers[m] = 0
          /\ Len(answers) = Len(shown)

\* C2 witness: two outputs and a fee, all three prompts accepted, askUser()
\* has returned 0.
C2_Witness ==
    /\ command = "ASKUSER_SIGN_TRANSACTION"
    /\ ui_pc = "done"
    /\ list_index = 2
    /\ fee_called
    /\ answers = <<0, 0, 0>>
    /\ shown[3].kind = "fee"
    /\ shown[3].amount = "0.0005"
    /\ r = 0

\* ------------------------------------------------------------------------
\* Sign-transaction request: transaction parser and fee verification
\* (payload format: protocol description, lines 504-522; the parser itself
\* is described in section 4.3 of the specification)
\* ------------------------------------------------------------------------

\* Sequences over S of length lo .. hi.
SeqsOf(S, lo, hi) == UNION {[1 .. n -> S] : n \in lo .. hi}

\* Amounts are counted in units of 0.01 BTC.
OutputValues == {1, 2}

\* The input transactions the host sends: the values of their outputs.
InputTxs == {<<1>>, <<1, 3>>}

\* "0x01 | <previous output number> | <input transaction>"
InputRefs == [index : 0 .. 1, outs : InputTxs]

\* The outputs of the spending transaction.
TxOutputs == [value : OutputValues, address : AddressTexts]

\* The transaction data of a sign-transaction request.
TxData ==
    [inputs : SeqsOf(InputRefs, 1, MaxTxIn),
     outputs : SeqsOf(TxOutputs, 1, MaxTxOut)]

\* An amount as the text shown to the user, such as "0.01".
AmountToText(v) ==
    "0." \o (IF v < 10 THEN "0" ELSE "") \o ToString(v)

\* Every previous-output number resolves to an output of its input
\* transaction.
RefsResolve(inputs) ==
    \A k \in 1 .. Len(inputs) : inputs[k].index < Len(inputs[k].outs)

RECURSIVE SumInputs(_)
\* The sum of the values of the referenced outputs of the input transactions.
SumInputs(inputs) ==
    IF inputs = <<>> THEN 0
    ELSE Head(inputs).outs[Head(inputs).index + 1] + SumInputs(Tail(inputs))

\* Fee = sum(input values) - sum(output values).
TransactionFee(sum_in, sum_out) == sum_in - sum_out

\* askUser()'s position, locals and display, without the history.
askLocals == <<ui_pc, command, stage, i, r, counter, accept_pressed,
               cancel_pressed, display_on, display>>

\* No request is being handled.
TxIdle == tx.result \in {"none", "failed", "denied", "signed"}

\* A sign-transaction request arrives: the pending output set is cleared and
\* the input transactions are parsed; a previous-output number that does not
\* resolve fails the request.
TxReceive ==
    /\ TxIdle
    /\ clearOutputsSeen
    /\ \E t \in TxData :
          IF RefsResolve(t.inputs)
          THEN tx' = [result |-> "outputs", refs_ok |-> TRUE,
                      sum_in |-> SumInputs(t.inputs), sum_out |-> 0,
                      rest |-> t.outputs, data |-> t]
          ELSE tx' = [result |-> "failed", refs_ok |-> FALSE,
                      sum_in |-> 0, sum_out |-> 0,
                      rest |-> <<>>, data |-> <<>>]
    /\ shown' = <<>>
    /\ answers' = <<>>
    /\ signed' = FALSE
    /\ UNCHANGED askLocals
    /\ UNCHANGED <<devVars, extVars>>

\* The next output of the spending transaction is parsed and surfaced with
\* newOutputSeen(); a full list fails the request.
TxOutput ==
    /\ tx.result = "outputs"
    /\ tx.rest # <<>>
    /\ newOutputSeen(AmountToText(Head(tx.rest).value), Head(tx.rest).address)
    /\ IF list_index >= MAX_OUTPUTS
       THEN tx' = [tx EXCEPT !.result = "failed", !.rest = <<>>,
                             !.data = <<>>]
       ELSE tx' = [tx EXCEPT !.sum_out = @ + Head(tx.rest).value,
                             !.rest = Tail(@)]
    /\ UNCHANGED <<askVars, devVars, extVars>>

\* End of the spending transaction: a negative fee fails the request, a
\* positive fee is surfaced with setTransactionFee(), a zero fee is not.
TxFee ==
    /\ tx.result = "outputs"
    /\ tx.rest = <<>>
    /\ LET fee == TransactionFee(tx.sum_in, tx.sum_out) IN
          \/ /\ fee < 0
             /\ tx' = [tx EXCEPT !.result = "failed", !.data = <<>>]
             /\ ui_pc = "idle"
             /\ UNCHANGED listVars
          \/ /\ fee = 0
             /\ tx' = [tx EXCEPT !.result = "parsed"]
             /\ ui_pc = "idle"
             /\ UNCHANGED listVars
          \/ /\ fee > 0
             /\ tx' = [tx EXCEPT !.result = "parsed"]
             /\ setTransactionFee(AmountToText(fee))
    /\ UNCHANGED <<askVars, devVars, extVars>>

\* The parsed transaction is submitted for approval.
TxAsk ==
    /\ tx.result = "parsed"
    /\ askUser("ASKUSER_SIGN_TRANSACTION")
    /\ tx' = [tx EXCEPT !.result = "asking",
                        !.data = [inputs |-> <<>>, outputs |-> @.outputs]]
    /\ UNCHANGED <<devVars, extVars>>

\* askUser() has returned: a signature is produced only after an accepted
\* approval; otherwise the request fails.
TxReturn ==
    /\ tx.result = "asking"
    /\ callerReturn
    /\ tx' = [tx EXCEPT !.result = IF r = 0 THEN "signed" ELSE "denied"]
    /\ UNCHANGED <<devVars, extVars>>

TxWaitNoPress == waitForNoButtonPress /\ UNCHANGED <<txVars, devVars, extVars>>

TxWaitPress == waitForButtonPress /\ UNCHANGED <<txVars, devVars, extVars>>

NextTx ==
    \/ TxReceive
    \/ TxOutput
    \/ TxFee
    \/ TxAsk
    \/ TxWaitNoPress
    \/ TxWaitPress
    \/ TxReturn

SpecTx == Init /\ [][NextTx]_vars

\* ------------------------------------------------------------------------
\* Properties of the fee verification
\* ------------------------------------------------------------------------

RECURSIVE SeqSum(_)
SeqSum(q) == IF q = <<>> THEN 0 ELSE Head(q) + SeqSum(Tail(q))

\* The fee of transaction data t, from the values the request carries.
FeeOfData(t) ==
    SeqSum([k \in 1 .. Len(t.inputs) |->
                t.inputs[k].outs[t.inputs[k].index + 1]])
      - SeqSum([k \in 1 .. Len(t.outputs) |-> t.outputs[k].value])

\* C3: when a sign-transaction request has been parsed successfully, every
\* previous-output number resolved, the fee (sum of the referenced input
\* values minus sum of the spending outputs) is not negative, a positive fee
\* is the fee text handed to the approval (and the text every fee prompt
\* shows), and every output was surfaced in order; when a reference does not
\* resolve or the outputs exceed the inputs, the request fails and no
\* approval prompt was shown, askUser() was not entered and nothing is
\* signed.
C3_FeeVerified ==
    /\ tx.result = "parsed" =>
          /\ RefsResolve(tx.data.inputs)
          /\ FeeOfData(tx.data) >= 0
          /\ tx.sum_in - tx.sum_out = FeeOfData(tx.data)
          /\ (FeeOfData(tx.data) > 0) =>
                /\ transaction_fee_set = 1
                /\ transaction_fee_amount = AmountToText(FeeOfData(tx.data))
          /\ (FeeOfData(tx.data) = 0) => transaction_fee_set = 0
          /\ list_index = Len(tx.data.outputs)
          /\ \A k \in 1 .. Len(tx.data.outputs) :
                /\ list_amount[k - 1] = AmountToText(tx.data.outputs[k].value)
                /\ list_address[k - 1] = tx.data.outputs[k].address
    /\ tx.result \in {"asking", "signed", "denied"} =>
          /\ tx.refs_ok
          /\ tx.sum_in >= tx.sum_out
          /\ \A j \in FeePrompts :
                /\ tx.sum_in > tx.sum_out
                /\ shown[j].amount = AmountToText(tx.sum_in - tx.sum_out)
    /\ (~tx.refs_ok \/ (tx.result # "outputs" /\ tx.sum_out > tx.sum_in)) =>
          tx.result = "failed"
    /\ tx.result = "failed" =>
          /\ ui_pc = "idle"
          /\ shown = <<>>
          /\ answers = <<>>
          /\ ~signed
    /\ signed => tx.result = "signed"

\* C3 witness: inputs worth 0.03 + 0.01, outputs worth 0.01 + 0.01; both
\* outputs were accepted and the fee prompt shows 0.02.
C3_Witness ==
    /\ tx.result = "asking"
    /\ tx.sum_in = 4
    /\ tx.sum_out = 2
    /\ ui_pc = "waitPress"
    /\ Len(shown) = 3
    /\ shown[3].kind = "fee"
    /\ shown[3].amount = "0.02"

\* Reached too: a request whose outputs exceed its inputs has failed after
\* its outputs were surfaced.
C3_NegativeFeeReached ==
    /\ tx.result = "failed"
    /\ tx.refs_ok
    /\ tx.sum_out > tx.sum_in
    /\ list_index > 0

\* ------------------------------------------------------------------------
\* Storage manager: wallet records
\* ------------------------------------------------------------------------

\* The record read from the slot at address base: the record all its blocks
\* belong to, or InvalidRecord when they belong to different records.
ReadRecord(base) ==
    LET first == nv[BlockAddress(base, 0)] IN
    IF \A a \in RecordBlocks(base) : nv[a] = first
    THEN first
    ELSE InvalidRecord

\* The write of record value to the slot of wallet n, which held old.  The
\* staging area is not used ("\todo Actually use this", storage_common.h):
\* the record is written to its slot, one cipher block after the other.
RecordWrite(n, value, old) ==
    [kind |-> "record", wallet |-> n, value |-> value, old |-> old,
     pos |-> 0, seed |-> ""]

\* Format: every slot is zeroed, then the entropy pool is replaced.
FormatWrite(seed) ==
    [kind |-> "format", wallet |-> 0, value |-> ZeroRecord,
     old |-> ZeroRecord, pos |-> 0, seed |-> seed]

\* ------------------------------------------------------------------------
\* Protocol engine: command handlers
\* (command catalogue: protocol description, lines 465-567)
\* ------------------------------------------------------------------------

\* Response packet types.
ACK == 1
SUCCESS == 2
FAILURE == 3

\* The commands that act on the loaded wallet.
WalletScoped ==
    {"create_address", "address_count", "get_address", "sign_transaction",
     "change_key", "change_name", "backup_wallet", "unload_wallet"}

\* A handler's outcome: the response, the wallet number the request is
\* addressed to, the storage blocks it read, the session state it leaves, the
\* storage write it starts, the kind of error and whether it asked the user.
Outcome(resp, target, touch, session, event, write, error, asked) ==
    [resp |-> resp, target |-> target, touch |-> touch, session |-> session,
     event |-> event, write |-> write, error |-> error, asked |-> asked]

Fail(target, touch, error, asked) ==
    Outcome(FAILURE, target, touch, current_wallet, session_event, NoWrite,
            error, asked)

Ok(target, touch, asked) ==
    Outcome(SUCCESS, target, touch, current_wallet, session_event, NoWrite,
            "none", asked)

OkWrite(target, touch, asked, value, old) ==
    Outcome(SUCCESS, target, touch, current_wallet, session_event,
            RecordWrite(target, value, old), "none", asked)

\* Variant: a wallet-scoped command does not test whether a wallet is loaded.
WalletLoadedAlways == TRUE

\* A wallet is loaded.
WalletLoaded == current_wallet # NoWallet

\* The slot of the loaded wallet.
CurrentBlocks == RecordBlocks(WalletAddress(current_wallet))

CurrentRecord == ReadRecord(WalletAddress(current_wallet))

\* 0x00 ping: answered with 0x01, whatever the payload.
PingOut ==
    Outcome(ACK, NoWallet, {}, current_wallet, session_event, NoWrite,
            "none", FALSE)

\* 0x04 create new wallet and 0x12 restore wallet: the user is asked
\* (ASKUSER_NUKE_WALLET, ASKUSER_RESTORE_WALLET), the number must be free.
NewWalletOut(n, key, name, len_ok, approve) ==
    IF ~len_ok THEN Fail(NoWallet, {}, "length", FALSE)
    ELSE IF approve # 0 THEN Fail(n, {}, "denied", TRUE)
    ELSE IF n \notin Wallets THEN Fail(n, {}, "storage", TRUE)
    ELSE IF ReadRecord(WalletAddress(n)).state # "zero"
         THEN Fail(n, RecordBlocks(WalletAddress(n)), "storage", TRUE)
    ELSE OkWrite(n, RecordBlocks(WalletAddress(n)), TRUE,
                 Record(name, key, 0), ZeroRecord)

\* Variant: the wallet becomes the loaded wallet whatever the key check says.
LoadWalletOutNoKeyCheck(n, key, len_ok) ==
    IF ~len_ok THEN Fail(NoWallet, {}, "length", FALSE)
    ELSE IF n \notin Wallets THEN Fail(n, {}, "storage", FALSE)
    ELSE Outcome(IF ReadRecord(WalletAddress(n)).state = "valid"
                    /\ ReadRecord(WalletAddress(n)).key = key
                 THEN SUCCESS ELSE FAILURE,
                 n, RecordBlocks(WalletAddress(n)), n, "load_ok", NoWrite,
                 IF ReadRecord(WalletAddress(n)).state = "valid"
                    /\ ReadRecord(WalletAddress(n)).key = key
                 THEN "none" ELSE "storage", FALSE)

\* 0x0B load wallet: NotFound if the slot is empty, WrongKey if the record
\* does not validate under the key; only then is current_wallet set.
LoadWalletOut(n, key, len_ok) ==
    IF ~len_ok THEN Fail(NoWallet, {}, "length", FALSE)
    ELSE IF n \notin Wallets THEN Fail(n, {}, "storage", FALSE)
    ELSE IF ReadRecord(WalletAddress(n)).state # "valid"
            \/ ReadRecord(WalletAddress(n)).key # key
         THEN Fail(n, RecordBlocks(WalletAddress(n)), "storage", FALSE)
    ELSE Outcome(SUCCESS, n, RecordBlocks(WalletAddress(n)), n, "load_ok",
                 NoWrite, "none", FALSE)

\* 0x0C unload wallet.
UnloadWalletOut(len_ok) ==
    IF ~len_ok THEN Fail(current_wallet, {}, "length", FALSE)
    ELSE IF ~WalletLoaded THEN Fail(current_wallet, {}, "nowallet", FALSE)
    ELSE Outcome(SUCCESS, current_wallet, {}, NoWallet, "unload", NoWrite,
                 "none", FALSE)

\* 0x05 create new address: the user is asked (ASKUSER_NEW_ADDRESS); the
\* record is updated with the new address count.
CreateAddressOut(len_ok, approve) ==
    IF ~len_ok THEN Fail(current_wallet, {}, "length", FALSE)
    ELSE IF ~WalletLoaded THEN Fail(current_wallet, {}, "nowallet", FALSE)
    ELSE IF approve # 0 THEN Fail(current_wallet, {}, "denied", TRUE)
    ELSE IF CurrentRecord.state # "valid"
            \/ CurrentRecord.naddr >= MaxAddresses
         THEN Fail(current_wallet, CurrentBlocks, "storage", TRUE)
    ELSE OkWrite(current_wallet, CurrentBlocks, TRUE,
                 [CurrentRecord EXCEPT !.naddr = @ + 1], CurrentRecord)

\* 0x06 get number of addresses.
AddressCountOut(len_ok) ==
    IF ~len_ok THEN Fail(current_wallet, {}, "length", FALSE)
    ELSE IF ~WalletLoaded THEN Fail(current_wallet, {}, "nowallet", FALSE)
    ELSE IF CurrentRecord.state # "valid"
         THEN Fail(current_wallet, CurrentBlocks, "storage", FALSE)
    ELSE Ok(current_wallet, CurrentBlocks, FALSE)

\* 0x09 get address and public key of an address handle.
GetAddressOut(handle, len_ok) ==
    IF ~len_ok THEN Fail(current_wallet, {}, "length", FALSE)
    ELSE IF ~WalletLoaded THEN Fail(current_wallet, {}, "nowallet", FALSE)
    ELSE IF CurrentRecord.state # "valid"
            \/ handle \notin 1 .. CurrentRecord.naddr
         THEN Fail(current_wallet, CurrentBlocks, "storage", FALSE)
    ELSE Ok(current_wallet, CurrentBlocks, FALSE)

\* 0x0A sign transaction: the transaction is parsed, the user is asked
\* (ASKUSER_SIGN_TRANSACTION), and only then is the key material read.
SignTransactionOut(len_ok, parse_ok, approve) ==
    IF ~len_ok THEN Fail(current_wallet, {}, "length", FALSE)
    ELSE IF ~WalletLoaded THEN Fail(current_wallet, {}, "nowallet", FALSE)
    ELSE IF ~parse_ok THEN Fail(current_wallet, {}, "parser", FALSE)
    ELSE IF approve # 0 THEN Fail(current_wallet, {}, "denied", TRUE)
    ELSE IF CurrentRecord.state # "valid"
         THEN Fail(current_wallet, CurrentBlocks, "storage", TRUE)
    ELSE Ok(current_wallet, CurrentBlocks, TRUE)

\* 0x0E change wallet encryption key.
ChangeKeyOut(key, len_ok) ==
    IF ~len_ok THEN Fail(current_wallet, {}, "length", FALSE)
    ELSE IF ~WalletLoaded THEN Fail(current_wallet, {}, "nowallet", FALSE)
    ELSE IF CurrentRecord.state # "valid"
         THEN Fail(current_wallet, CurrentBlocks, "storage", FALSE)
    ELSE OkWrite(current_wallet, CurrentBlocks, FALSE,
                 [CurrentRecord EXCEPT !.key = key], CurrentRecord)

\* 0x0F change wallet name: the user is asked (ASKUSER_CHANGE_NAME).
ChangeNameOut(name, len_ok, approve) ==
    IF ~len_ok THEN Fail(current_wallet, {}, "length", FALSE)
    ELSE IF ~WalletLoaded THEN Fail(current_wallet, {}, "nowallet", FALSE)
    ELSE IF approve # 0 THEN Fail(current_wallet, {}, "denied", TRUE)
    ELSE IF CurrentRecord.state # "valid"
         THEN Fail(current_wallet, CurrentBlocks, "storage", TRUE)
    ELSE OkWrite(current_wallet, CurrentBlocks, TRUE,
                 [CurrentRecord EXCEPT !.name = name], CurrentRecord)

\* 0x11 backup wallet: the user is asked (ASKUSER_BACKUP_WALLET), then the
\* seed is written with writeBackupSeed(), which returns 0 on success.
BackupWalletOut(len_ok, approve, seed_written) ==
    IF ~len_ok THEN Fail(current_wallet, {}, "length", FALSE)
    ELSE IF ~WalletLoaded THEN Fail(current_wallet, {}, "nowallet", FALSE)
    ELSE IF approve # 0 THEN Fail(current_wallet, {}, "denied", TRUE)
    ELSE IF CurrentRecord.state # "valid"
         THEN Fail(current_wallet, CurrentBlocks, "storage", TRUE)
    ELSE IF seed_written # 0
         THEN Fail(current_wallet, CurrentBlocks, "denied", TRUE)
    ELSE Ok(current_wallet, CurrentBlocks, TRUE)

\* 0x10 list wallets: every record is read.
ListWalletsOut(len_ok) ==
    IF ~len_ok THEN Fail(NoWallet, {}, "length", FALSE)
    ELSE Ok(NoWallet, UNION {RecordBlocks(WalletAddress(n)) : n \in Wallets},
            FALSE)

\* 0x0D format storage: the user is asked (ASKUSER_FORMAT).
FormatOut(seed, len_ok, approve) ==
    IF ~len_ok THEN Fail(NoWallet, {}, "length", FALSE)
    ELSE IF approve # 0 THEN Fail(NoWallet, {}, "denied", TRUE)
    ELSE Outcome(SUCCESS, NoWallet, {}, current_wallet, session_event,
                 FormatWrite(seed), "none", TRUE)

\* ------------------------------------------------------------------------
\* Protocol engine: one packet at a time
\* ------------------------------------------------------------------------

\* The state of the user interface apart from the display.
uiQuiet == <<list_amount, list_address, list_index, transaction_fee_set,
             transaction_fee_amount, ui_pc, command, stage, i, r, counter,
             accept_pressed, cancel_pressed, shown, answers, fee_called,
             seen_r, signed>>

\* Variant: the error is not shown.
streamErrorSilent ==
    /\ display' = <<>>
    /\ display_on' = FALSE

\* streamError() (user_interface.c, lines 445-451).
streamError ==
    /\ display' = <<"Unexpected communications error! Halting.">>
    /\ display_on' = TRUE

\* The handler of a request packet has run up to its response or up to the
\* start of its storage write.
HandleOut(cmd, out) ==
    /\ pending' = pending + 1
    /\ last' = [cmd |-> cmd, had_wallet |-> current_wallet # NoWallet,
                prev |-> current_wallet, target |-> out.target,
                error |-> out.error, asked |-> out.asked]
    /\ touched' = out.touch
    /\ current_wallet' = out.session
    /\ session_event' = out.event
    /\ wr' = out.write
    /\ IF out.write.kind = "none"
       THEN dev_pc' = "respond" /\ response' = out.resp
       ELSE dev_pc' = "write" /\ response' = 0
    /\ UNCHANGED <<nv, nv_pool, stream_failed, interrupted>>

\* A request whose handler does not wait for the user inside the model.
Handle(cmd, out) ==
    /\ dev_pc = "read"
    /\ HandleOut(cmd, out)
    /\ UNCHANGED <<uiVars, txVars, extVars>>

Approvals == {0, 1}

Ping == Handle("ping", PingOut)

CreateWallet ==
    \E n \in 0 .. NumWallets, key \in NewKeys, name \in NewNames,
       len_ok \in BOOLEAN, approve \in Approvals :
        Handle("create_wallet", NewWalletOut(n, key, name, len_ok, approve))

RestoreWallet ==
    \E n \in 0 .. NumWallets, key \in NewKeys, name \in NewNames,
       len_ok \in BOOLEAN, approve \in Approvals :
        Handle("restore_wallet", NewWalletOut(n, key, name, len_ok, approve))

LoadWallet ==
    \E n \in 0 .. NumWallets, key \in Keys, len_ok \in BOOLEAN :
        Handle("load_wallet", LoadWalletOut(n, key, len_ok))

UnloadWallet ==
    \E len_ok \in BOOLEAN : Handle("unload_wallet", UnloadWalletOut(len_ok))

CreateAddress ==
    \E len_ok \in BOOLEAN, approve \in Approvals :
        Handle("create_address", CreateAddressOut(len_ok, approve))

AddressCount ==
    \E len_ok \in BOOLEAN : Handle("address_count", AddressCountOut(len_ok))

GetAddress ==
    \E handle \in 1 .. (MaxAddresses + 1), len_ok \in BOOLEAN :
        Handle("get_address", GetAddressOut(handle, len_ok))

SignTransaction ==
    \E len_ok \in BOOLEAN, parse_ok \in BOOLEAN, approve \in Approvals :
        Handle("sign_transaction",
               SignTransactionOut(len_ok, parse_ok, approve))

ChangeKey ==
    \E key \in Keys, len_ok \in BOOLEAN :
        Handle("change_key", ChangeKeyOut(key, len_ok))

ChangeName ==
    \E name \in Names, len_ok \in BOOLEAN, approve \in Approvals :
        Handle("change_name", ChangeNameOut(name, len_ok, approve))

BackupWallet ==
    \E len_ok \in BOOLEAN, approve \in Approvals, seed_written \in 0 .. 2 :
        Handle("backup_wallet",
               BackupWalletOut(len_ok, approve, seed_written))

ListWallets ==
    \E len_ok \in BOOLEAN : Handle("list_wallets", ListWalletsOut(len_ok))

FormatStorage ==
    \E seed \in Seeds, len_ok \in BOOLEAN, approve \in Approvals :
        Handle("format_storage", FormatOut(seed, len_ok, approve))

\* The handler has finished its storage write: the response is success.
WriteDone ==
    /\ dev_pc' = "respond"
    /\ response' = SUCCESS
    /\ wr' = NoWrite

\* One block of the storage write in progress.
WriteStep ==
    /\ dev_pc = "write"
    /\ \/ /\ wr.kind = "record"
          /\ nv' = [nv EXCEPT ![BlockAddress(WalletAddress(wr.wallet), wr.pos)]
                                  = wr.value]
          /\ touched' = touched
                \cup {BlockAddress(WalletAddress(wr.wallet), wr.pos)}
          /\ IF wr.pos + 1 < BlocksPerRecord
             THEN /\ wr' = [wr EXCEPT !.pos = @ + 1]
                  /\ UNCHANGED <<dev_pc, response>>
             ELSE WriteDone
          /\ UNCHANGED nv_pool
       \/ /\ wr.kind = "format"
          /\ nv' = [nv EXCEPT ![BlockAddress(WalletAddress(wr.wallet), wr.pos)]
                                  = ZeroRecord]
          /\ touched' = touched
                \cup {BlockAddress(WalletAddress(wr.wallet), wr.pos)}
          /\ wr' = IF wr.pos + 1 < BlocksPerRecord
                   THEN [wr EXCEPT !.pos = @ + 1]
                   ELSE IF wr.wallet + 1 < NumWallets
                   THEN [wr EXCEPT !.wallet = @ + 1, !.pos = 0]
                   ELSE [wr EXCEPT !.kind = "pool"]
          /\ UNCHANGED <<dev_pc, response, nv_pool>>
       \/ /\ wr.kind = "pool"
          /\ nv_pool' = [pool |-> wr.seed, checksum |-> wr.seed]
          /\ WriteDone
          /\ UNCHANGED <<nv, touched>>
    /\ UNCHANGED <<current_wallet, pending, last, session_event,
                   stream_failed, interrupted>>
    /\ UNCHANGED <<uiVars, txVars, extVars>>

\* Variant: after a failure response the request stays outstanding.
SendResponseKeepsFailure ==
    /\ dev_pc = "respond"
    /\ dev_pc' = "read"
    /\ pending' = IF response = FAILURE THEN pending ELSE pending - 1
    /\ response' = 0
    /\ last' = NoRequest
    /\ touched' = {}
    /\ UNCHANGED <<nv, nv_pool, current_wallet, wr, session_event,
                   stream_failed, interrupted>>
    /\ UNCHANGED <<uiVars, txVars, extVars>>

\* The response packet is sent; the engine reads the next packet.
SendResponse ==
    /\ dev_pc = "respond"
    /\ dev_pc' = "read"
    /\ pending' = pending - 1
    /\ response' = 0
    /\ last' = NoRequest
    /\ touched' = {}
    /\ UNCHANGED <<nv, nv_pool, current_wallet, wr, session_event,
                   stream_failed, interrupted>>
    /\ UNCHANGED <<uiVars, txVars, extVars>>

\* A framing error while a packet is read (the stream ends before the
\* declared length): it is reported with streamError(), the session state is
\* dropped and the engine halts.
StreamFail ==
    /\ dev_pc = "read"
    /\ streamError
    /\ dev_pc' = "halted"
    /\ stream_failed' = TRUE
    /\ current_wallet' = NoWallet
    /\ session_event' = "fatal"
    /\ UNCHANGED <<nv, nv_pool, wr, response, pending, last, touched,
                   interrupted>>
    /\ UNCHANGED <<uiQuiet, txVars, extVars>>

\* Power is lost: non-volatile storage stays as it is, everything else is
\* gone.  The state with dev_pc = "off" is the storage as it is found when it
\* is reopened; a behaviour ends with its power loss.
PowerLoss ==
    /\ dev_pc # "off"
    /\ dev_pc' = "off"
    /\ interrupted' =
          IF dev_pc = "write" /\ wr.kind = "record"
          THEN [wallet |-> wr.wallet, old |-> wr.old, new |-> wr.value]
          ELSE NoInterrupt
    /\ current_wallet' = NoWallet
    /\ wr' = NoWrite
    /\ response' = 0
    /\ pending' = 0
    /\ last' = NoRequest
    /\ touched' = {}
    /\ session_event' = "reset"
    /\ stream_failed' = FALSE
    /\ display' = <<>>
    /\ display_on' = FALSE
    /\ UNCHANGED <<nv, nv_pool>>
    /\ UNCHANGED <<uiQuiet, txVars, extVars>>

NextProto ==
    \/ Ping
    \/ CreateWallet
    \/ RestoreWallet
    \/ LoadWallet
    \/ UnloadWallet
    \/ CreateAddress
    \/ AddressCount
    \/ GetAddress
    \/ SignTransaction
    \/ ChangeKey
    \/ ChangeName
    \/ BackupWallet
    \/ ListWallets
    \/ FormatStorage
    \/ WriteStep
    \/ SendResponse
    \/ StreamFail

\* The protocol engine on a powered device.
SpecProto == Init /\ [][NextProto]_vars

NextStore ==
    \/ NextProto
    \/ PowerLoss

\* The device up to a power loss.
SpecStore == Init /\ [][NextStore]_vars

\* ------------------------------------------------------------------------
\* Properties of the storage manager
\* ------------------------------------------------------------------------

\* The slot at address base holds record v in every block.
SlotHolds(base, v) == \A a \in RecordBlocks(base) : nv[a] = v

\* C4: after a power loss during the update of an existing wallet record, the
\* record's slot holds either the record as it was before the update or the
\* new record, in full, never a mix of the two.
C4_AtomicUpdate ==
    (dev_pc = "off" /\ interrupted.wallet # NoWallet
        /\ interrupted.old.state = "valid") =>
        \/ SlotHolds(WalletAddress(interrupted.wallet), interrupted.old)
        \/ SlotHolds(WalletAddress(interrupted.wallet), interrupted.new)

\* C5: while a record is being written to its slot, the staging area at
\* ADDRESS_WALLET_STAGING holds that record in full: the write to the slot is
\* a copy of the staged record.
C5_StagedWrite ==
    (dev_pc = "write" /\ wr.kind = "record") =>
        SlotHolds(ADDRESS_WALLET_STAGING, wr.value)

\* The bytes of a set of blocks.
BytesOf(blocks) == UNION {a .. (a + AES_BLOCK_SIZE - 1) : a \in blocks}

\* The bytes of the slot of wallet record n.
SlotBytes(n) ==
    (ADDRESS_WALLET_START + n * WALLET_RECORD_LENGTH)
        .. (ADDRESS_WALLET_START + (n + 1) * WALLET_RECORD_LENGTH - 1)

\* The request being handled is addressed to one wallet number.
AddressedToWallet ==
    last.cmd \notin {"none", "ping", "list_wallets", "format_storage"}

\* C8: a request addressed to wallet number A accesses no byte of the slot
\* of another wallet number B, and the bytes it accesses when it reads or
\* writes record A are those of
\* [ADDRESS_WALLET_START + A * WALLET_RECORD_LENGTH,
\*  ADDRESS_WALLET_START + (A + 1) * WALLET_RECORD_LENGTH).
C8_WalletIsolation ==
    AddressedToWallet =>
        /\ \A B \in Wallets \ {last.target} :
              BytesOf(touched) \cap SlotBytes(B) = {}
        /\ touched # {} => BytesOf(touched) = SlotBytes(last.target)

\* C8 witness: with both wallets created and wallet 1 loaded, the record of
\* wallet 1 has been rewritten in full by change-name.
C8_Witness ==
    /\ dev_pc = "respond"
    /\ last.cmd = "change_name"
    /\ last.target = 1
    /\ response = SUCCESS
    /\ ReadRecord(WalletAddress(0)).state = "valid"
    /\ ReadRecord(WalletAddress(1)).state = "valid"
    /\ touched = RecordBlocks(WalletAddress(1))

\* ------------------------------------------------------------------------
\* Properties of the protocol engine
\* ------------------------------------------------------------------------

\* C6: a wallet-scoped command received while no wallet is loaded is answered
\* with a failure response and has accessed no block of storage and started no
\* storage write.
C6_NoWalletFails ==
    (last.cmd \in WalletScoped /\ ~last.had_wallet) =>
        /\ dev_pc = "respond"
        /\ response = FAILURE
        /\ touched = {}
        /\ wr = NoWrite

\* C6 witness: a sign-transaction request of the right length, received with
\* no wallet loaded while storage holds a wallet, is being answered.
C6_Witness ==
    /\ dev_pc = "respond"
    /\ last.cmd = "sign_transaction"
    /\ last.error = "nowallet"
    /\ ~last.had_wallet
    /\ response = FAILURE
    /\ ReadRecord(WalletAddress(0)).state = "valid"

\* C7: current_wallet is a single wallet number or NoWallet; it is set only
\* while the last event that changed the session is a load-wallet that
\* succeeded, for the wallet that was loaded; a load-wallet that fails leaves
\* it as it was; unload-wallet and a framing error clear it; no other command
\* changes it.
C7_SessionState ==
    /\ current_wallet \in Wallets \cup {NoWallet}
    /\ current_wallet # NoWallet => session_event = "load_ok"
    /\ session_event \in {"reset", "unload", "fatal"} =>
          current_wallet = NoWallet
    /\ stream_failed => current_wallet = NoWallet
    /\ (last.cmd = "load_wallet" /\ response = SUCCESS) =>
          /\ current_wallet = last.target
          /\ ReadRecord(WalletAddress(last.target)).state = "valid"
    /\ (last.cmd = "load_wallet" /\ response = FAILURE) =>
          current_wallet = last.prev
    /\ (last.cmd = "unload_wallet" /\ response = SUCCESS) =>
          current_wallet = NoWallet
    /\ (last.cmd \notin {"none", "load_wallet", "unload_wallet"}) =>
          current_wallet = last.prev

\* C7 witness: wallet 0 is loaded and a load-wallet for wallet 1, which
\* exists, has failed.
C7_Witness ==
    /\ dev_pc = "respond"
    /\ last.cmd = "load_wallet"
    /\ last.target = 1
    /\ last.prev = 0
    /\ response = FAILURE
    /\ touched # {}
    /\ ReadRecord(WalletAddress(1)).state = "valid"
    /\ current_wallet = 0

\* The engine's bookkeeping of requests and responses.
OneResponseInv ==
    /\ pending \in {0, 1}
    /\ dev_pc = "read" => pending = 0
    /\ dev_pc \in {"write", "respond"} => pending = 1
    /\ dev_pc = "respond" =>
          /\ response \in {ACK, SUCCESS, FAILURE}
          /\ response = ACK <=> last.cmd = "ping"
          /\ last.error \in {"storage", "parser"} => response = FAILURE

\* C9: every request read is answered by exactly one response packet before
\* the next request is read (no request is read while one is outstanding); a
\* ping is answered with 0x01 and every other command with 0x02 or 0x03; a
\* storage or parser error is answered with 0x03; and once a response is
\* sent the engine is reading the next packet.
C9_OneResponse ==
    /\ []OneResponseInv
    /\ [][dev_pc = "respond" => (dev_pc' = "read" /\ pending' = 0)]_vars
    /\ [][(pending' > pending) => (dev_pc = "read" /\ pending = 0)]_vars

\* C9 witness: a request that failed in the storage manager is being answered
\* with a failure response.
C9_Witness ==
    /\ dev_pc = "respond"
    /\ last.error = "storage"
    /\ response = FAILURE
    /\ pending = 1

\* C10: once a framing error has occurred, it has been reported with
\* streamError() (the display is on and shows the message), the engine is
\* halted, and from then on no request is read or dispatched and storage does
\* not change.
C10_StreamErrorHalts ==
    /\ [](stream_failed =>
            /\ dev_pc = "halted"
            /\ display_on
            /\ display = <<"Unexpected communications error! Halting.">>)
    /\ [][stream_failed =>
            UNCHANGED <<nv, nv_pool, pending, last, dev_pc, wr>>]_vars

\* C10 witness: the engine has halted on a framing error with a wallet stored.
C10_Witness ==
    /\ stream_failed
    /\ dev_pc = "halted"
    /\ display_on
    /\ ReadRecord(WalletAddress(0)).state = "valid"

\* ------------------------------------------------------------------------
\* Flow control of the byte stream
\* (protocol description, "Flow control (for AVR only)", lines 569-574)
\* ------------------------------------------------------------------------

\* The u32 values the other side grants, as the four bytes of an acknowledge
\* in the order they are received.
AckValues == {<<0, 0, 0, 0>>, <<1, 0, 0, 0>>, <<16, 0, 0, 0>>, <<2, 1, 0, 0>>}

RECURSIVE BigEndian(_)
\* Variant: the first byte received is the most significant.
BigEndian(bytes) ==
    IF bytes = <<>> THEN 0
    ELSE bytes[Len(bytes)] + 256 * BigEndian(SubSeq(bytes, 1, Len(bytes) - 1))

RECURSIVE LittleEndian(_)
\* The number a little-endian byte sequence stands for: the first byte
\* received is the least significant.
LittleEndian(bytes) ==
    IF bytes = <<>> THEN 0
    ELSE Head(bytes) + 256 * LittleEndian(Tail(bytes))

\* Everything but the flow control state.
notFcVars == <<uiVars, txVars, devVars, btnVars, bk>>

\* "Every n bytes, wait for an acknowledge from the other side": one byte is
\* sent; after the n-th byte since the last acknowledge the sender waits.
FcSendByte ==
    /\ fc_pc = "send"
    /\ fc_sent < fc_n
    /\ fc_sent' = fc_sent + 1
    /\ fc_pc' = IF fc_sent + 1 >= fc_n THEN "wait" ELSE "send"
    /\ UNCHANGED <<fc_n, fc_ack, fc_last_ack>>
    /\ UNCHANGED notFcVars

\* The waiting sender receives the marker byte of an acknowledge.
FcAckMarker ==
    /\ fc_pc = "wait"
    /\ fc_ack = <<>>
    /\ fc_ack' = <<FC_ACK_MARKER>>
    /\ UNCHANGED <<fc_n, fc_sent, fc_pc, fc_last_ack>>
    /\ UNCHANGED notFcVars

\* The waiting sender receives the next byte of the u32 that follows the
\* marker; with the fourth byte the acknowledge is complete: n is the value
\* received and the count of bytes sent starts again.  With n = 0 nothing
\* may be sent before the next acknowledge.
FcAckValue ==
    /\ fc_pc = "wait"
    /\ fc_ack # <<>>
    /\ \E v \in AckValues :
          LET got == Tail(fc_ack)
              k == Len(got) + 1
          IN  /\ got = SubSeq(v, 1, Len(got))
              /\ IF k < 4
                 THEN /\ fc_ack' = Append(fc_ack, v[k])
                      /\ UNCHANGED <<fc_n, fc_sent, fc_pc, fc_last_ack>>
                 ELSE /\ fc_ack' = <<>>
                      /\ fc_last_ack' = v
                      /\ fc_n' = LittleEndian(v)
                      /\ fc_sent' = 0
                      /\ fc_pc' = IF LittleEndian(v) = 0 THEN "wait"
                                  ELSE "send"
    /\ UNCHANGED notFcVars

NextFlow ==
    \/ FcSendByte
    \/ FcAckMarker
    \/ FcAckValue

SpecFlow == Init /\ [][NextFlow]_vars

C12_ClearedPerRequest ==
    /\ [](tx.result = "outputs" =>
            /\ list_index = Len(tx.data.outputs) - Len(tx.rest)
            /\ transaction_fee_set = 0)
    /\ [](tx.result \in {"asking", "signed", "denied"} =>
            \A j \in 1 .. Len(shown) :
                /\ shown[j].kind \in {"output", "fee"}
                /\ shown[j].kind = "output" =>
                      /\ shown[j].idx < Len(tx.data.outputs)
                      /\ shown[j].amount =
                            AmountToText(tx.data.outputs[shown[j].idx + 1].value)
                      /\ shown[j].address =
                            tx.data.outputs[shown[j].idx + 1].address
                /\ shown[j].kind = "fee" =>
                      /\ tx.sum_in > tx.sum_out
                      /\ tx.sum_out =
                            SeqSum([k \in 1 .. Len(tx.data.outputs) |->
                                        tx.data.outputs[k].value])
                      /\ shown[j].amount =
                            AmountToText(tx.sum_in - tx.sum_out))
    /\ [][(TxIdle /\ tx' # tx) =>
            (list_index' = 0 /\ transaction_fee_set' = 0)]_vars

\* C12 witness: an earlier request left a second pair and a fee text in the
\* arrays; the current request has one output and no fee, its only prompt
\* was shown and accepted and askUser() has returned 0.
C12_Witness ==
    /\ tx.result = "asking"
    /\ ui_pc = "done"
    /\ list_index = 1
    /\ list_amount[1] # ""
    /\ transaction_fee_amount # ""
    /\ transaction_fee_set = 0
    /\ Len(shown) = 1
    /\ answers = <<0>>
    /\ r = 0

\* ------------------------------------------------------------------------
\* Capacity of the pending output list
\* ------------------------------------------------------------------------

\* The amounts a caller reports for the pair that would go to slot k. The
\* amount varies for the last two slots and for a call on a full list only,
\* which keeps the stale contents of the arrays enumerable.
ListAmounts(k) ==
    IF k + 2 < MAX_OUTPUTS THEN {"0.01"} ELSE AmountTexts

\* A caller of newOutputSeen() that, unlike the parser of Spec, does not stop
\* at MaxTxOut outputs: it may call with the list full.
ListOutput ==
    /\ \E a \in ListAmounts(list_index), d \in AddressTexts : newOutputSeen(a, d)
    /\ UNCHANGED <<askVars, txVars, devVars, extVars>>

ListClear == clearOutputsSeen /\ UNCHANGED <<askVars, txVars, devVars, extVars>>

NextList == ListOutput \/ ListClear

SpecList == Init /\ [][NextList]_vars

\* C13: the pending output list holds at most MAX_OUTPUTS (20) pairs:
\* list_index never exceeds MAX_OUTPUTS. A newOutputSeen() call made with
\* MAX_OUTPUTS pairs stored returns non-zero and leaves the stored pairs and
\* the count unchanged; a call made with fewer pairs stored returns 0 and
\* puts the pair at the end of the list, leaving the earlier slots alone.
C13_BoundedList ==
    /\ [](list_index <= MAX_OUTPUTS)
    /\ [][\A a \in AmountTexts, d \in AddressTexts :
            newOutputSeen(a, d) =>
                IF list_index = MAX_OUTPUTS
                THEN /\ seen_r' # 0
                     /\ list_amount' = list_amount
                     /\ list_address' = list_address
                     /\ list_index' = list_index
                ELSE /\ seen_r' = 0
                     /\ list_index' = list_index + 1
                     /\ list_amount'[list_index] = a
                     /\ list_address'[list_index] = d
                     /\ \A k \in 0 .. (MAX_OUTPUTS - 1) :
                            k # list_index =>
                                /\ list_amount'[k] = list_amount[k]
                                /\ list_address'[k] = list_address[k]]_vars

\* A call made with the list full was refused: the list still holds its
\* MAX_OUTPUTS pairs, the last of them the one stored by the last call that
\* succeeded.
C13_Witness ==
    /\ list_index = MAX_OUTPUTS
    /\ seen_r = 1
    /\ list_amount[MAX_OUTPUTS - 1] = "0.02"
    /\ list_amount[MAX_OUTPUTS - 2] = "0.01"

\* ------------------------------------------------------------------------
\* Layout of non-volatile storage (storage_common.h)
\* ------------------------------------------------------------------------

\* Length of the persistent entropy pool (protocol description, format
\* storage: "length is 32 ... the initial persistent entropy pool state").
ENTROPY_POOL_LENGTH == 32

\* The pool checksum lies between ADDRESS_POOL_CHECKSUM and the staging area.
POOL_CHECKSUM_LENGTH == ADDRESS_WALLET_STAGING - ADDRESS_POOL_CHECKSUM

\* The regions of the layout. n is the wallet number of a record's region.
LayoutRegions ==
    {[name |-> "pool", n |-> NoWallet,
      start |-> ADDRESS_ENTROPY_POOL, len |-> ENTROPY_POOL_LENGTH],
     [name |-> "checksum", n |-> NoWallet,
      start |-> ADDRESS_POOL_CHECKSUM, len |-> POOL_CHECKSUM_LENGTH],
     [name |-> "staging", n |-> NoWallet,
      start |-> ADDRESS_WALLET_STAGING, len |-> WALLET_RECORD_LENGTH]}
      \cup {[name |-> "wallet", n |-> w,
             start |-> WalletAddress(w), len |-> WALLET_RECORD_LENGTH] :
                w \in Wallets}

RegionBytes(g) == g.start .. (g.start + g.len - 1)

RegionNamed(name) == CHOOSE g \in LayoutRegions : g.name = name

\* The storage manager creating wallets and formatting storage: the requests
\* that write every record slot.
NextLayout ==
    \/ CreateWallet
    \/ FormatStorage
    \/ WriteStep
    \/ SendResponse

SpecLayout == Init /\ [][NextLayout]_vars

C18_AcceptNeedsPrompt ==
    /\ (ui_pc = "done" /\ r = 0) =>
           /\ Len(shown) >= 1
           /\ Len(answers) = Len(shown)
           /\ \A j \in 1 .. Len(answers) : answers[j] = 0
    /\ (ui_pc = "done" /\ command = "ASKUSER_UNKNOWN") => r # 0

\* ------------------------------------------------------------------------
\* writeBackupSeed() (user_interface.c, lines 340-443)
\* ------------------------------------------------------------------------

\* Length of the backup seed in bytes (protocol description, restore wallet:
\* "last 64 bytes of value are the ... deterministic address generator seed").
SEED_LENGTH == 64

\* Line 415: seed bytes on one line of the display.
BytesPerLine == 6

\* Characters of one line "x:xxxx xxxx xxxx": the leader, the bytes and the
\* spaces between pairs of bytes. The line fills one row of the display.
SeedLineChars == 2 + BytesPerLine * 2 + (BytesPerLine \div 2 - 1)

\* Rows of text of the display.
DisplayLines == 4

\* displayCursorAtEnd(): the rows of the display are full.
displayCursorAtEnd(b) == b.cursor >= DisplayLines * SeedLineChars

BackupPrompt(kind, idx) ==
    [kind |-> kind, idx |-> idx, amount |-> "", address |-> ""]

\* Lines 397-433: the for loop from index iv, up to the byte after which
\* displayCursorAtEnd() holds (page = TRUE, i is that byte's index) or to its
\* end (page = FALSE, i = SEED_LENGTH). The hexadecimal digits written are
\* not told apart: "x:" is a leader, "xx" a seed byte.
RECURSIVE WriteSeedBytes(_, _, _)
WriteSeedBytes(iv, b, disp) ==
    IF iv >= SEED_LENGTH
    THEN [i |-> iv, bk |-> b, display |-> disp, page |-> FALSE]
    ELSE LET lead == IF b.byte_counter = 0 THEN <<"x:">>
                     ELSE IF b.byte_counter % 2 = 0 THEN <<" ">>
                     ELSE <<>>
             chars == (IF b.byte_counter = 0 THEN 2
                       ELSE IF b.byte_counter % 2 = 0 THEN 1 ELSE 0) + 2
             full == b.byte_counter + 1 = BytesPerLine
             b1 == [b EXCEPT !.byte_counter = IF full THEN 0 ELSE @ + 1,
                             !.line_number = IF full THEN @ + 1 ELSE @,
                             !.cursor = @ + chars]
             disp1 == disp \o lead \o <<"xx">>
         IN  IF displayCursorAtEnd(b1)
             THEN [i |-> iv, bk |-> b1, display |-> disp1, page |-> TRUE]
             ELSE WriteSeedBytes(iv + 1, b1, disp1)

\* The for loop runs from index iv on an empty display and stops in the
\* waitForNoButtonPress() of line 423 or of line 434.
SeedLoop(iv, b, rv) ==
    LET w == WriteSeedBytes(iv, [b EXCEPT !.cursor = 0], <<>>) IN
    /\ ui_pc' = "bkNoPress"
    /\ stage' = IF w.page THEN "page" ELSE "last"
    /\ i' = w.i
    /\ bk' = w.bk
    /\ display' = w.display
    /\ counter' = DEBOUNCE_COUNT
    /\ r' = rv
    /\ UNCHANGED <<display_on, accept_pressed, cancel_pressed>>

\* return: the locals of the wait functions end with the call.
BackupFinish(rv) ==
    /\ ui_pc' = "bkDone"
    /\ r' = rv
    /\ stage' = "none"
    /\ counter' = 0
    /\ accept_pressed' = 0
    /\ cancel_pressed' = 0
    /\ display' = <<>>
    /\ display_on' = FALSE
    /\ UNCHANGED <<i, bk>>

\* Variant: a cancelled page is followed by the next page.
BackupAnsweredPageGoesOn(ret) ==
    CASE stage = "notice" ->
            IF ret # 0 THEN BackupFinish(2)
            ELSE /\ ui_pc' = "bkNoPress"
                 /\ stage' = "seed"
                 /\ counter' = DEBOUNCE_COUNT
                 /\ display' = <<>>
                 /\ r' = ret
                 /\ UNCHANGED <<i, bk, display_on, accept_pressed,
                                cancel_pressed>>
      [] stage = "page" ->
            SeedLoop(i + 1, [bk EXCEPT !.byte_counter = 0], ret)
      [] OTHER -> BackupFinish(IF ret # 0 THEN 2 ELSE 0)

\* The code that follows the return of a waitForButtonPress() call: lines
\* 381-387 (notice), 424-431 (page), 436-442 (after the last byte).
BackupAnswered(ret) ==
    CASE stage = "notice" ->
            IF ret # 0 THEN BackupFinish(2)
            ELSE /\ ui_pc' = "bkNoPress"
                 /\ stage' = "seed"
                 /\ counter' = DEBOUNCE_COUNT
                 /\ display' = <<>>
                 /\ r' = ret
                 /\ UNCHANGED <<i, bk, display_on, accept_pressed,
                                cancel_pressed>>
      [] stage = "page" ->
            IF ret # 0 THEN BackupFinish(2)
            ELSE SeedLoop(i + 1, [bk EXCEPT !.byte_counter = 0], ret)
      [] OTHER -> BackupFinish(IF ret # 0 THEN 2 ELSE 0)

\* writeBackupSeed(seed, is_encrypted, destination_device), from its entry
\* to the first loop test of its first wait, or to its return for a device
\* it does not know. r is not initialised.
writeBackupSeed(is_encrypted, destination_device) ==
    /\ ui_pc = "idle"
    /\ shown' = <<>>
    /\ answers' = <<>>
    /\ bk' = [NoBackup EXCEPT !.destination_device = destination_device,
                              !.is_encrypted = is_encrypted]
    /\ IF destination_device # 0
       THEN /\ ui_pc' = "bkDone"
            /\ r' = 1
            /\ UNCHANGED <<stage, i, counter, display, display_on>>
       ELSE /\ ui_pc' = "bkNoPress"
            /\ stage' = "notice"
            /\ i' = 0
            /\ \E r0 \in UninitByte : r' = r0
            /\ counter' = DEBOUNCE_COUNT
            /\ display' = <<>>
            /\ display_on' = TRUE
    /\ UNCHANGED <<command, accept_pressed, cancel_pressed, signed>>
    /\ UNCHANGED listVars

\* One iteration of a waitForNoButtonPress() loop of writeBackupSeed(). When
\* the loop ends the notice is written (lines 371-378), the seed loop starts
\* (line 387) or waitForButtonPress() is entered (lines 424, 435).
backupWaitForNoButtonPressOn(accept, cancel) ==
    /\ ui_pc = "bkNoPress"
    /\ LET c1 == NoPressCounter(counter, accept, cancel) IN
       IF c1 > 0
       THEN /\ counter' = c1
            /\ UNCHANGED <<ui_pc, stage, i, r, display, display_on, shown, bk,
                           accept_pressed, cancel_pressed>>
       ELSE IF stage = "seed"
       THEN /\ SeedLoop(0, bk, r)
            /\ UNCHANGED shown
       ELSE /\ ui_pc' = "bkPress"
            /\ counter' = DEBOUNCE_COUNT
            /\ display' = IF stage # "notice" THEN display
                          ELSE IF bk.is_encrypted # 0
                          THEN <<"Backup is encrypted.">>
                          ELSE <<"Backup is not encrypted.">>
            /\ shown' = Append(shown, BackupPrompt(stage, i))
            /\ UNCHANGED <<stage, i, r, display_on, bk, accept_pressed,
                           cancel_pressed>>
    /\ UNCHANGED <<command, answers, signed>>
    /\ UNCHANGED listVars

\* One iteration of a waitForButtonPress() loop of writeBackupSeed().
backupWaitForButtonPressOn(accept, cancel) ==
    /\ ui_pc = "bkPress"
    /\ LET c1 == PressCounter(counter, accept, cancel) IN
       IF c1 > 0
       THEN /\ counter' = c1
            /\ accept_pressed' = accept
            /\ cancel_pressed' = cancel
            /\ UNCHANGED <<ui_pc, stage, i, r, display, display_on, answers, bk>>
       ELSE /\ answers' = Append(answers, PressResult(accept, cancel))
            /\ BackupAnswered(PressResult(accept, cancel))
    /\ UNCHANGED <<command, shown, signed>>
    /\ UNCHANGED listVars

\* writeBackupSeed() has returned r to its caller: its arguments and locals
\* end with the call.
backupReturn ==
    /\ ui_pc = "bkDone"
    /\ ui_pc' = "idle"
    /\ bk' = NoBackup
    /\ UNCHANGED <<command, stage, i, r, counter, accept_pressed,
                   cancel_pressed, display_on, display, shown, answers,
                   signed>>
    /\ UNCHANGED listVars

\* ------------------------------------------------------------------------
\* The button lines as the wait loops sample them
\* ------------------------------------------------------------------------

Min(a, b) == IF a < b THEN a ELSE b

\* A button is pressed in sample v.
Pressed(v) == v # NoSample /\ (v[1] = 1 \/ v[2] = 1)

\* wait1ms(); isAcceptPressed(); isCancelPressed(): one sample of the button
\* lines is read. wanted: the sample is what the wait is waiting for. run
\* counts the wanted samples of the current wait since its last other sample.
ReadButtons(accept, cancel, wanted) ==
    /\ smp' = <<accept, cancel>>
    /\ run' = IF wanted
              THEN Min((IF fresh THEN 0 ELSE run) + 1, DEBOUNCE_COUNT)
              ELSE 0

\* A step of waitForNoButtonPress() with the sample it reads. ended: the
\* function returns with this sample.
SampledNoPress(accept, cancel, ended) ==
    /\ ReadButtons(accept, cancel, accept = 0 /\ cancel = 0)
    /\ fresh' = ended
    /\ quiet' = (quiet \/ run' = DEBOUNCE_COUNT)

\* A step of waitForButtonPress() with the sample it reads. answered: the
\* function returns with this sample.
SampledPress(accept, cancel, answered) ==
    /\ ReadButtons(accept, cancel, accept = 1 \/ cancel = 1)
    /\ fresh' = answered
    /\ quiet' = IF answered THEN FALSE ELSE quiet

\* No sample of the button lines belongs to a call in progress.
NoCall ==
    /\ smp' = NoSample
    /\ run' = 0
    /\ fresh' = TRUE
    /\ quiet' = FALSE

btnRest == <<txVars, devVars, fcVars, noise>>

BtnOutput ==
    /\ list_index < MaxTxOut
    /\ \E d \in AddressTexts : newOutputSeen("0.01", d)
    /\ UNCHANGED <<askVars, txVars, devVars, extVars>>

BtnFee ==
    /\ \E f \in FeeTexts : setTransactionFee(f)
    /\ UNCHANGED <<askVars, txVars, devVars, extVars>>

BtnAsk ==
    /\ \E cmd \in AskUserCommands : askUser(cmd)
    /\ NoCall
    /\ UNCHANGED <<btnRest, bk>>

BtnWaitNoPress ==
    /\ \E accept \in Sample, cancel \in Sample :
          /\ waitForNoButtonPressOn(accept, cancel)
          /\ SampledNoPress(accept, cancel, ui_pc' # ui_pc)
    /\ UNCHANGED <<btnRest, bk>>

BtnWaitPress ==
    /\ \E accept \in Sample, cancel \in Sample :
          /\ waitForButtonPressOn(accept, cancel)
          /\ SampledPress(accept, cancel, answers' # answers)
    /\ UNCHANGED <<btnRest, bk>>

BtnReturn ==
    /\ callerReturn
    /\ NoCall
    /\ UNCHANGED <<btnRest, bk>>

BtnBackup ==
    /\ \E is_encrypted \in {0, 1}, destination_device \in {0, 1} :
          writeBackupSeed(is_encrypted, destination_device)
    /\ NoCall
    /\ UNCHANGED btnRest

BtnBackupNoPress ==
    /\ \E accept \in Sample, cancel \in Sample :
          /\ backupWaitForNoButtonPressOn(accept, cancel)
          /\ SampledNoPress(accept, cancel,
                            ui_pc' # ui_pc \/ stage' # stage)
    /\ UNCHANGED btnRest

BtnBackupPress ==
    /\ \E accept \in Sample, cancel \in Sample :
          /\ backupWaitForButtonPressOn(accept, cancel)
          /\ SampledPress(accept, cancel, answers' # answers)
    /\ UNCHANGED btnRest

BtnBackupReturn ==
    /\ backupReturn
    /\ NoCall
    /\ UNCHANGED btnRest

NextBtn ==
    \/ BtnOutput
    \/ BtnFee
    \/ BtnAsk
    \/ BtnWaitNoPress
    \/ BtnWaitPress
    \/ BtnReturn
    \/ BtnBackup
    \/ BtnBackupNoPress
    \/ BtnBackupPress
    \/ BtnBackupReturn

\* The user interface with the samples its wait loops read.
SpecBtn == Init /\ [][NextBtn]_vars

\* ------------------------------------------------------------------------
\* Properties of the debounced waits
\* ------------------------------------------------------------------------

Last(q) == q[Len(q)]

InNoPressWait == ui_pc \in {"waitNoPress", "bkNoPress"}

InPressWait == ui_pc \in {"waitPress", "bkPress"}

\* This step is the return of a waitForButtonPress() call.
PressReturns == InPressWait /\ Len(answers') = Len(answers) + 1

\* This step is the return of a waitForNoButtonPress() call.
NoPressReturns == InNoPressWait /\ (ui_pc' # ui_pc \/ stage' # stage)

CancelInWindow ==
    /\ InPressWait
    /\ ~fresh
    /\ run >= 1
    /\ smp # NoSample
    /\ smp[2] = 1

\* C21: waitForButtonPress() reports accept (0) only if the accept button,
\* and not the cancel button, was pressed in every one of the 50 consecutive
\* samples of the debounce window that ends the wait: a call whose window
\* holds a sample with the cancel button pressed (here the sample before the
\* one it returns with) does not return 0.
C21_CancelInWindowRejects ==
    [][(CancelInWindow /\ PressReturns) => Last(answers') # 0]_vars

\* C19: in askUser() and writeBackupSeed() every waitForButtonPress() call
\* follows a waitForNoButtonPress() call made after the previous answer:
\* when a prompt is answered, 50 samples in a row with both buttons released
\* have been read since the previous answer (since the call began, for the
\* first prompt), so one continuous hold does not answer two prompts.
C19_ReleaseBetweenAnswers ==
    /\ [](InPressWait => quiet)
    /\ [][PressReturns => (quiet /\ ~quiet')]_vars
    /\ [][(~quiet /\ quiet') =>
            (NoPressReturns /\ run' = DEBOUNCE_COUNT /\ smp' = <<0, 0>>)]_vars

\* The last output and the fee have both been answered.
C19_Witness ==
    /\ ui_pc = "done"
    /\ command = "ASKUSER_SIGN_TRANSACTION"
    /\ list_index = 1
    /\ Len(shown) = 2
    /\ shown[2].kind = "fee"
    /\ answers = <<0, 0>>

\* ------------------------------------------------------------------------
\* Properties of writeBackupSeed()
\* ------------------------------------------------------------------------

\* Seed pages that end with displayCursorAtEnd().
SeedPages == SEED_LENGTH \div (DisplayLines * BytesPerLine)

\* C15: writeBackupSeed() returns 1 for a destination device other than 0,
\* without turning the display on and without waiting for a button; it
\* returns 2 as soon as the notice or a seed page is cancelled, with no
\* further seed byte written to the display; it returns 0 only if the
\* notice and every seed page, the last included, were accepted.
C15_BackupOutcomes ==
    /\ [](ui_pc = "bkDone" =>
            /\ r \in {0, 1, 2}
            /\ (r = 1) = (bk.destination_device # 0)
            /\ r = 1 => (shown = <<>> /\ answers = <<>> /\ smp = NoSample)
            /\ r = 2 =>
                /\ answers # <<>>
                /\ Len(shown) = Len(answers)
                /\ Last(answers) # 0
                /\ \A j \in 1 .. (Len(answers) - 1) : answers[j] = 0
            /\ r = 0 =>
                /\ Len(answers) = SeedPages + 2
                /\ \A j \in 1 .. Len(answers) : answers[j] = 0
                /\ Len(shown) = Len(answers)
                /\ shown[1].kind = "notice"
                /\ \A j \in 2 .. (Len(shown) - 1) : shown[j].kind = "page"
                /\ Last(shown).kind = "last"
                /\ Last(shown).idx = SEED_LENGTH)
    /\ [][(ui_pc = "idle" /\ ui_pc' = "bkDone") =>
            (r' = 1 /\ display_on' = display_on /\ display' = display
                /\ ~display_on)]_vars
    /\ [][(ui_pc = "bkPress" /\ PressReturns /\ Last(answers') # 0) =>
            (ui_pc' = "bkDone" /\ r' = 2 /\ i' = i /\ display' = <<>>
                /\ ~display_on')]_vars

\* The first seed page has been cancelled after the notice was accepted.
C15_Witness ==
    /\ ui_pc = "bkDone"
    /\ r = 2
    /\ Len(shown) = 2
    /\ shown[2].kind = "page"
    /\ answers = <<0, 1>>
    /\ i + 1 = DisplayLines * BytesPerLine

\* ------------------------------------------------------------------------
\* askUser() with a user who answers
\* ------------------------------------------------------------------------

\* Samples by which the user may restart one wait, by pressing a button while
\* the release is waited for or by releasing the buttons while a press is
\* waited for, before giving the 50 samples in a row the wait needs.
MaxNoise == 1

\* The budget of the wait in progress after a step that read a sample: a new
\* wait starts with the full budget.
NoiseLeft(ended, restarts) ==
    IF ended THEN MaxNoise
    ELSE IF restarts THEN noise - 1
    ELSE noise

fairRest == <<txVars, devVars, fcVars, bk>>

FairAsk ==
    /\ \E cmd \in AskUserCommands : askUser(cmd)
    /\ NoCall
    /\ noise' = MaxNoise
    /\ UNCHANGED fairRest

FairWaitNoPress ==
    /\ \E accept \in Sample, cancel \in Sample :
          /\ (accept = 1 \/ cancel = 1) => noise > 0
          /\ waitForNoButtonPressOn(accept, cancel)
          /\ SampledNoPress(accept, cancel, ui_pc' # ui_pc)
          /\ noise' = NoiseLeft(ui_pc' # ui_pc, accept = 1 \/ cancel = 1)
    /\ UNCHANGED fairRest

FairWaitPress ==
    /\ \E accept \in Sample, cancel \in Sample :
          /\ (accept = 0 /\ cancel = 0) => noise > 0
          /\ waitForButtonPressOn(accept, cancel)
          /\ SampledPress(accept, cancel, answers' # answers)
          /\ noise' = NoiseLeft(answers' # answers, accept = 0 /\ cancel = 0)
    /\ UNCHANGED fairRest

NextFair ==
    \/ BtnOutput
    \/ BtnFee
    \/ FairAsk
    \/ FairWaitNoPress
    \/ FairWaitPress
    \/ BtnReturn

\* The wait loops go on sampling (while (counter > 0) { wait1ms(); ... }).
SpecFair ==
    /\ Init
    /\ [][NextFair]_vars
    /\ WF_vars(FairWaitNoPress)
    /\ WF_vars(FairWaitPress)

\* askUser() is inside one of its waits.
InAskWait == ui_pc \in {"waitNoPress", "waitPress"}

\* The prompts an askUser(cmd) call shows at most.
MaxPrompts(cmd) ==
    CASE cmd = "ASKUSER_SIGN_TRANSACTION" -> list_index + 1
      [] cmd = "ASKUSER_FORMAT" -> 3
      [] OTHER -> 1

FormatSeeds == {"entropy1"}

\* 0x0D format storage with a payload of the right length: the handler calls
\* askUser(ASKUSER_FORMAT) and waits for it to return.
FmtRequest ==
    /\ dev_pc = "read"
    /\ askUser("ASKUSER_FORMAT")
    /\ dev_pc' = "ask"
    /\ UNCHANGED <<nv, nv_pool, current_wallet, wr, response, pending, last,
                   touched, session_event, stream_failed, interrupted>>
    /\ UNCHANGED <<txVars, extVars>>

\* askUser() has returned r: the handler fails the request or starts to
\* format.
FmtDecide ==
    /\ dev_pc = "ask"
    /\ callerReturn
    /\ \E seed \in FormatSeeds :
          HandleOut("format_storage", FormatOut(seed, TRUE, r))
    /\ UNCHANGED <<txVars, extVars>>

NextFormat ==
    \/ CreateWallet
    \/ FmtRequest
    \/ WaitNoPress
    \/ WaitPress
    \/ FmtDecide
    \/ WriteStep
    \/ SendResponse

\* The device creating wallets and formatting storage, the confirmations of
\* the format given at the buttons.
SpecFormat == Init /\ [][NextFormat]_vars

\* Some block of a wallet slot that held a record is zeroed by this step.
SlotZeroed ==
    \E a \in DOMAIN nv : nv[a] # ZeroRecord /\ nv'[a] = ZeroRecord

\* askUser(ASKUSER_FORMAT) has shown its three confirmations and each was
\* accepted.
FormatConfirmed ==
    /\ command = "ASKUSER_FORMAT"
    /\ answers = <<0, 0, 0>>
    /\ Len(shown) = 3
    /\ shown[1].kind = "format1"
    /\ shown[2].kind = "format2"
    /\ shown[3].kind = "format3"

\* C20: askUser(ASKUSER_FORMAT) returns 0 only after its three confirmations
\* were shown and accepted one after the other; a denial of the first, the
\* second or the third makes it return non-zero at once, the remaining
\* confirmations not shown. The format-storage request zeroes a wallet slot
\* and replaces the entropy pool only after the three were accepted.
C20_FormatNeedsThree ==
    /\ []((ui_pc = "done" /\ command = "ASKUSER_FORMAT" /\ r = 0) =>
            FormatConfirmed)
    /\ []((ui_pc = "done" /\ command = "ASKUSER_FORMAT" /\ r # 0) =>
            /\ Len(shown) = Len(answers)
            /\ Len(shown) \in 1 .. 3
            /\ Last(answers) # 0)
    /\ [][(ui_pc = "waitPress" /\ command = "ASKUSER_FORMAT"
                /\ Len(answers') = Len(answers) + 1 /\ Last(answers') # 0) =>
            (ui_pc' = "done" /\ r' # 0 /\ shown' = shown)]_vars
    /\ [](wr.kind \in {"format", "pool"} => (FormatConfirmed /\ r = 0))
    /\ [][(SlotZeroed \/ nv_pool' # nv_pool) =>
            (wr.kind \in {"format", "pool"} /\ FormatConfirmed /\ r = 0
                /\ last.cmd = "format_storage")]_vars

\* The three confirmations were accepted and the format is under way: the
\* first slot is zeroed, the last still holds its record.
C20_Witness ==
    /\ dev_pc = "write"
    /\ wr.kind = "format"
    /\ wr.wallet = NumWallets - 1
    /\ wr.pos = 0
    /\ ReadRecord(WalletAddress(NumWallets - 1)).state = "valid"
    /\ FormatConfirmed

============================================================================
